---- MODULE Spec2Model ----
(***************************************************************************)
(* minimodem: the receive main loop of main() and the transmit / receive   *)
(* framebits path, as state machines.                                      *)
(*                                                                         *)
(* One step of Spec is one iteration of the while(1) receive loop (or the  *)
(* code after it).  The audio source, fsk_detect_carrier and               *)
(* fsk_find_frame are the environment: their results are chosen by \E.     *)
(*                                                                         *)
(* Floating point: nsamples_per_bit = sample_rate / bfsk_data_rate is held *)
(* as the exact rational cfg.nspb / cfg.den; every float expression of the *)
(* source is evaluated on numerators over cfg.den and converted to an      *)
(* unsigned integer by Trunc, as the C conversion does.                    *)
(***************************************************************************)
EXTENDS Integers, Sequences, FiniteSets, TLC

\* ------------------------------------------------------------------ bounds
\* denominator of the rational nsamples_per_bit at data rates up to the
\* sample rate
NspbDen == 2
\* largest numerator of nsamples_per_bit the configurations take (>= NspbDen)
MaxNspbNum == 3
\* length of the audio stream, in samples, of Spec
SrcShort == 24
\* length of the audio stream, in samples, of SpecLong
SrcLong == 64
\* at most this many reads return fewer samples than asked although more exist
MaxShortReads == 1
\* at most this many find_frame results of a stream exceed a threshold >= 0
MaxFrames == 2
\* at most this many windows of a stream make fsk_detect_carrier report a band
MaxDetects == 1
\* largest band index fsk_detect_carrier reports
MaxBand == 2
\* largest confidence level fsk_find_frame reports
MaxConf == 1
\* denominator of nsamples_per_bit at a data rate above the sample rate: one
\* sample holds FastDen bits
FastDen == 6
\* bytes on the transmitter's input
MaxTxBytes == 2
\* options on the command line
MaxArgs == 2

\* --------------------------------------------------------- program constants
FSK_MAX_NOCONFIDENCE_BITS == 20
FSK_ANALYZE_NSTEPS == 10
tx_leader_bits_len == 2
tx_trailer_bits_len == 2
sample_rate == 48000
\* float fsk_confidence_threshold = 2.0;  float fsk_confidence_search_limit
\* = 2.3f;  (in tenths)
fsk_confidence_threshold_default == 20
fsk_confidence_search_limit_default == 23

VARIABLES
    cfg,               \* the command line: nspb, n_data_bits, quiet_mode, ...
    pc,                \* "loop" | "exited" (after the loop) | "done";
                       \*   "off" when the round trip runs instead
    src,               \* the audio source and its signal (record):
                       \*   left: samples it can still deliver; eof: at end
                       \*   of file; short_left: short reads it may still
                       \*   make; frames_left: confident frames and
                       \*   detects_left: carrier detections it still holds
    samples_nvalid, samples_readoff, read_nsamples, advance,
    carrier, confidence_total, nframes_decoded, carrier_nsamples,
    noconfidence, carrier_band, ret,
    baudot_charset,    \* Baudot decoder shift state: 0 letters, 1 figures
    stdout, stderr,    \* bytes written to stdout; report lines on stderr
    hist,              \* history of the session (record):
                       \*   stream_pos: samples shifted out of the buffer
                       \*   shift_ok: every shift had advance <= samples_nvalid
                       \*   naccepted: frames handed to the decoder
                       \*   last_conf, last_bits: find_frame's result for the
                       \*     last of them
                       \*   accept_end: stream_pos after its advance
                       \*   nout_accept: length of stdout after it
                       \*   drop_lag, drop_out, drop_streak: at the last loss
                       \*     of carrier inside the loop, the samples shifted
                       \*     and bytes written since accept_end, and the
                       \*     count of low-confidence attempts
                       \*   all_low: no find_frame result exceeded threshold
                       \*   read_error: a read failed
                       \*   eof_iters: iterations entered after end of file
                       \*     (counted up to 2)
                       \*   short_tail: the loop ended on samples_nvalid <
                       \*     frame_nsamples
                       \*   contig: every read so far was at offset
                       \*     samples_nvalid for samplebuf_size -
                       \*     samples_nvalid samples
                       \*   search_ok: every candidate of every find_frame
                       \*     call so far lay within the valid samples
    rt,                \* transmit -> receive round trip (record)
    tx,                \* the transmitter, fsk_transmit_stdin (record)
    opt,               \* the command-line parse (record)
    plan               \* the auto-carrier tone binding (record)

vars == <<cfg, pc, src, samples_nvalid, samples_readoff,
          read_nsamples, advance, carrier, confidence_total, nframes_decoded,
          carrier_nsamples, noconfidence, carrier_band, ret, baudot_charset,
          stdout, stderr, hist, rt, tx, opt, plan>>

\* the transmitter, the option parser and the tone binding
sidevars == <<tx, opt, plan>>

rxvars == <<cfg, pc, src, samples_nvalid, samples_readoff,
            read_nsamples, advance, carrier, confidence_total, nframes_decoded,
            carrier_nsamples, noconfidence, carrier_band, ret, baudot_charset,
            stderr, hist>>

\* ------------------------------------------------------------ arithmetic
Min(a, b) == IF a <= b THEN a ELSE b

\* C conversion of the float n / cfg.den to an unsigned integer: toward zero
Trunc(n) == IF n >= 0 THEN n \div cfg.den ELSE -((-n) \div cfg.den)

RECURSIVE Pow2(_)
Pow2(n) == IF n = 0 THEN 1 ELSE 2 * Pow2(n - 1)

\* bit i of the unsigned word w
Bit(w, i) == (w \div Pow2(i)) % 2

RECURSIVE NextPow2From(_, _)
NextPow2From(p, n) == IF p >= n THEN p ELSE NextPow2From(2 * p, n)

\* ------------------------------------------------------------ configuration
\* The command lines explored.  nspb is the numerator of nsamples_per_bit
\* (sample_rate / bfsk_data_rate); threshold is fsk_confidence_threshold on
\* the scale of the confidence levels; autodetect is
\* carrier_autodetect_threshold > 0.0 (-a); b_shift is the band shift the
\* auto-detect computes from autodetect_shift and band_width; char_signed is
\* the build's signedness of plain char.
Configs ==
    [den : {NspbDen}, nspb : NspbDen..MaxNspbNum, n_data_bits : {5, 8},
     quiet_mode : BOOLEAN,
     autodetect : BOOLEAN, threshold : {-1, 0}, b_shift : {-1},
     char_signed : {TRUE}]

nsamples_per_bit == cfg.nspb

\* fsk_plan: F = D + 2 frame bits (prev_stop + start + D data bits)
n_frame_bits == cfg.n_data_bits + 2

\* fsk_plan: the smallest power of two >= sample_rate / band_width, with
\* band_width clamped to <= the data rate, so fftsize >= nsamples_per_bit
fftsize == NextPow2From(1, (nsamples_per_bit + cfg.den - 1) \div cfg.den)

\* size_t samplebuf_size = ceilf(nsamples_per_bit) * (12+1);
samplebuf_size == ((nsamples_per_bit + cfg.den - 1) \div cfg.den) * (12 + 1)

\* unsigned int nsamples_overscan = nsamples_per_bit * fsk_frame_overscan + 0.5;
\* with fsk_frame_overscan = 0.5, and at least one sample
nsamples_overscan ==
    LET n == (nsamples_per_bit + cfg.den) \div (2 * cfg.den)
    IN  IF n = 0 THEN 1 ELSE n

\* unsigned int frame_nsamples = nsamples_per_bit * fskp->n_frame_bits;
frame_nsamples == Trunc(nsamples_per_bit * n_frame_bits)

\* unsigned int try_max_nsamples = nsamples_per_bit + nsamples_overscan;
try_max_nsamples == Trunc(nsamples_per_bit + nsamples_overscan * cfg.den)

\* unsigned int try_step_nsamples = nsamples_per_bit / FSK_ANALYZE_NSTEPS;
try_step_nsamples ==
    LET n == nsamples_per_bit \div (FSK_ANALYZE_NSTEPS * cfg.den)
    IN  IF n = 0 THEN 1 ELSE n

\* float nsamples_per_scan = min(nsamples_per_bit, fftsize)  (a numerator)
nsamples_per_scan == Min(nsamples_per_bit, fftsize * cfg.den)

\* try_first_sample: nsamples_overscan with carrier, else 0
try_first_sample == IF carrier THEN nsamples_overscan ELSE 0

\* ------------------------------------------------- shift of the sample buffer
\* ShiftUnderflow without the test of advance against samples_nvalid
ShiftUnderflow_NoTest == FALSE

\* if ( advance > samples_nvalid ) break;   (after the advance == size reset)
ShiftUnderflow ==
    advance # samplebuf_size /\ advance # 0 /\ advance > samples_nvalid

\* the number of samples this iteration's shift drops from the buffer front
ShiftAmount == advance

\* samples_nvalid after the shift
ShiftNvalid ==
    IF advance = samplebuf_size THEN 0
    ELSE IF advance # 0 THEN samples_nvalid - ShiftAmount
    ELSE samples_nvalid

\* samples_readptr - samplebuf after the shift
ShiftReadoff ==
    IF advance = samplebuf_size THEN 0
    ELSE IF advance # 0 THEN samplebuf_size - advance
    ELSE samples_readoff

\* read_nsamples after the shift
ShiftReadNsamples ==
    IF advance = samplebuf_size THEN samplebuf_size
    ELSE IF advance # 0 THEN advance
    ELSE read_nsamples

\* advance after the shift (the advance == samplebuf_size branch clears it)
ShiftAdvance == IF advance = samplebuf_size THEN 0 ELSE advance

\* the three assertions at the head of an iteration
HeadAssertions ==
    /\ advance <= samplebuf_size
    /\ ShiftUnderflow \/ ShiftReadNsamples > 0
    /\ ShiftUnderflow \/ ShiftNvalid + ShiftReadNsamples <= samplebuf_size

\* ------------------------------------------------------------- audio source
\* simpleaudio_read(sa, samples_readptr, read_nsamples): -1 on error, 0 at end
\* of file, else the number of samples read, at most n and at most what the
\* stream still holds; a short read returns less than is available.
ReadResults(n) ==
    LET full == Min(n, src.left)
    IN  {-1, 0}
        \cup (IF src.eof THEN {} ELSE
                (IF full >= 1 THEN {full} ELSE {})
                \cup (IF src.short_left > 0
                      THEN {k \in {1, full - 1} : 1 <= k /\ k < full}
                      ELSE {}))

\* the read returned less than asked although the stream holds more
ReadIsShort(n, r) == r >= 1 /\ r < Min(n, src.left)

\* ------------------------------------------------------- carrier auto-detect
Bands == 1..MaxBand

\* the scan offsets i the auto-detect loop visits from i while
\* i + nsamples_per_scan <= samples_nvalid, stepping i += nsamples_per_scan
RECURSIVE ScanOffsets(_, _)
ScanOffsets(i, nvalid) ==
    IF i * cfg.den + nsamples_per_scan <= nvalid * cfg.den
    THEN {i} \cup ScanOffsets(Trunc(i * cfg.den + nsamples_per_scan), nvalid)
    ELSE {}

\* the value of i when the loop ends without a hit
RECURSIVE ScanEnd(_, _)
ScanEnd(i, nvalid) ==
    IF i * cfg.den + nsamples_per_scan <= nvalid * cfg.den
    THEN ScanEnd(Trunc(i * cfg.den + nsamples_per_scan), nvalid)
    ELSE i

\* advance = i + nsamples_per_scan; if ( advance > samples_nvalid ) advance = samples_nvalid;
ScanAdvance(i, nvalid) ==
    Min(Trunc(i * cfg.den + nsamples_per_scan), nvalid)

\* if ( carrier_band + b_shift < 1 )  "autodetected space band too low"
SpaceBandTooLow(band) == band + cfg.b_shift < 1

\* What the auto-detect block does in an iteration with nvalid samples:
\*   none   - the block is skipped (no -a, or the carrier band is bound)
\*   miss   - no window holds a carrier: continue
\*   toolow - a carrier whose space band is too low: continue
\*   bound  - fsk_set_tones_by_bandshift(fskp, carrier_band, b_shift)
DetectOutcomes(nvalid) ==
    IF ~(cfg.autodetect /\ carrier_band < 0)
    THEN {[kind |-> "none", band |-> carrier_band, adv |-> ShiftAdvance]}
    ELSE {[kind |-> "miss", band |-> -1,
           adv |-> ScanAdvance(ScanEnd(0, nvalid), nvalid)]}
         \cup {[kind |-> IF SpaceBandTooLow(b) THEN "toolow" ELSE "bound",
                band |-> IF SpaceBandTooLow(b) THEN -1 ELSE b,
                adv |-> ScanAdvance(i, nvalid)] :
               i \in (IF src.detects_left > 0 THEN ScanOffsets(0, nvalid)
                      ELSE {}),
               b \in Bands}

\* ------------------------------------------------------------ frame locator
\* the data words the modelled signals carry
DataWords == IF cfg.n_data_bits = 5 THEN {27, 10} ELSE {65, 7}

\* a frame word: prev_stop at bit 0, start at bit 1, the data bits from bit 2
\* (least significant first), stop above them
FrameWord(prev_stop, start, data, stop) ==
    prev_stop + 2 * start + 4 * data + Pow2(cfg.n_data_bits + 2) * stop

\* framing validation: prev_stop = 1, start = 0, stop = 1
FramingValid(bits) ==
    /\ Bit(bits, 0) = 1
    /\ Bit(bits, 1) = 0
    /\ Bit(bits, cfg.n_data_bits + 2) = 1

\* the candidate positions first, first + step, ..., first + max_try - step.
\* The call passes fsk_find_frame the buffer and frame_nsamples but not
\* samples_nvalid, so the positions cannot depend on it.
CandidateStarts(first, max_try, step) ==
    {s \in first..(first + max_try - step) : (s - first) % step = 0}

\* the result when no candidate passes framing validation
NoCandidate == [confidence |-> 0, bits |-> 0, start |-> 0]

\* fsk_find_frame: the best candidate (valid framing, any confidence and data
\* word the signal makes it), or NoCandidate
FindFrameResults ==
    {NoCandidate}
    \cup {[confidence |-> c, bits |-> FrameWord(1, 0, d, 1), start |-> s] :
            c \in {k \in 0..MaxConf :
                     \/ k <= cfg.threshold
                     \/ cfg.threshold < 0
                     \/ src.frames_left > 0},
            d \in DataWords,
            s \in CandidateStarts(try_first_sample, try_max_nsamples,
                                  try_step_nsamples)}

\* ---------------------------------------------------------- framebits codec
\* bits = ( bits >> 2 ) & 0x1F   or   ( bits >> 2 ) & 0xFF
ChopFramingBits(bits) == (bits \div 4) % Pow2(cfg.n_data_bits)

\* framebits_encode_ascii8: *databits_outp = char_out (a char widened to
\* unsigned int: sign-extended when char is signed); returns 1 word.
\* The word is held as the value of the char; UBit reads it as unsigned int.
framebits_encode_ascii8(c) ==
    <<IF cfg.char_signed /\ c >= 128 THEN c - 256 ELSE c>>

\* bit i of the int v converted to unsigned int (two's complement)
UBit(v, i) == IF v >= 0 THEN Bit(v, i) ELSE 1 - Bit(-v - 1, i)

\* framebits_decode_ascii8 with a non-null buffer: one byte, the word
framebits_decode_ascii8(bits) == <<bits % 256>>

\* Baudot (ITA-2) letters and figures tables, indexed by code + 1
BaudotLetters ==
    <<0, 69, 10, 65, 32, 83, 73, 85, 13, 68, 82, 74, 78, 70, 67, 75,
      84, 90, 76, 87, 72, 89, 80, 81, 79, 66, 71, 0, 77, 88, 86, 0>>
BaudotFigures ==
    <<0, 51, 10, 45, 32, 7, 56, 55, 13, 36, 52, 39, 44, 33, 58, 40,
      53, 34, 41, 50, 35, 54, 48, 49, 57, 63, 38, 0, 46, 47, 59, 0>>

\* baudot_decode: the shift state after the code
BaudotShiftAfter(charset, bits) ==
    IF bits = 31 THEN 0 ELSE IF bits = 27 THEN 1 ELSE charset

\* baudot_decode: the bytes the code yields (none for shifts and NUL)
framebits_decode_baudot(charset, bits) ==
    IF bits \in {31, 27, 0} THEN <<>>
    ELSE <<(IF charset = 0 THEN BaudotLetters ELSE BaudotFigures)[bits + 1]>>

\* bfsk_framebits_decode(0, 0, 0): the frame processor reset.  It returns 0
\* bytes; ascii8 does nothing, baudot resets its shift state to letters
bfsk_framebits_reset(charset) ==
    [nbytes |-> 0, charset |-> IF cfg.n_data_bits = 8 THEN charset ELSE 0]

\* bfsk_framebits_decode(dataoutbuf, ...): the decoder the data width selects
bfsk_framebits_decode(charset, bits) ==
    IF cfg.n_data_bits = 8 THEN framebits_decode_ascii8(bits)
    ELSE framebits_decode_baudot(charset, bits)

\* isprint(c) || isspace(c) in the C locale, for c in 0..127
IsPrintOrSpace(c) == (32 <= c /\ c <= 126) \/ (9 <= c /\ c <= 13)

\* char printable_char = isprint(*p)||isspace(*p) ? *p : '.';  the bytes the
\* printf may write for the decoded byte b.  With a signed char a byte
\* 128..254 is a negative argument other than EOF to isprint: undefined, so
\* either branch; 255 is EOF (-1) there, for which both tests are false.
PrintableChars(b) ==
    IF b < 128 THEN {IF IsPrintOrSpace(b) THEN b ELSE 46}
    ELSE IF cfg.char_signed /\ b # 255 THEN {b, 46}
    ELSE {46}

\* the ways the decoded bytes can be written to stdout
RECURSIVE PrintedSeqs(_)
PrintedSeqs(bytes) ==
    IF bytes = <<>> THEN {<<>>}
    ELSE {<<c>> \o t : c \in PrintableChars(Head(bytes)),
                       t \in PrintedSeqs(Tail(bytes))}

\* ------------------------------------------------------------ receive loop
\* LowConfidence with < for <=
LowConfidence_Strict(confidence) == confidence < cfg.threshold

\* if ( confidence <= fsk_confidence_threshold )
LowConfidence(confidence) == confidence <= cfg.threshold

\* NoConfidenceExceeded with >= for >
NoConfidenceExceeded_AtMax(n) == n >= FSK_MAX_NOCONFIDENCE_BITS

\* if ( ++noconfidence > FSK_MAX_NOCONFIDENCE_BITS ), n the incremented count
NoConfidenceExceeded(n) == n > FSK_MAX_NOCONFIDENCE_BITS

\* AcceptAdvance without the frame length
AcceptAdvance_NoFrame(start) ==
    Trunc(start * cfg.den - nsamples_overscan * cfg.den)

\* advance = frame_start_sample + nsamples_per_bit * (n_data_bits + 2)
\*           - nsamples_overscan;
AcceptAdvance(start) ==
    Trunc(start * cfg.den + nsamples_per_bit * (cfg.n_data_bits + 2)
          - nsamples_overscan * cfg.den)

\* carrier_nsamples += nsamples_per_bit * (n_data_bits + 2); and, with
\* carrier, += frame_start_sample; -= nsamples_overscan;
AcceptCarrierNsamples(start) ==
    LET n == Trunc(carrier_nsamples * cfg.den
                   + nsamples_per_bit * (cfg.n_data_bits + 2))
    IN  IF carrier THEN n + start - nsamples_overscan ELSE n

\* fprintf(stderr, "### CARRIER ...") / report_no_carrier(): unless quiet_mode
Report(line) == IF cfg.quiet_mode THEN stderr ELSE Append(stderr, line)

\* DroppedStats that keeps the confidence total
DroppedStats_KeepTotal ==
    [carrier_nsamples |-> 0, confidence_total |-> confidence_total,
     nframes_decoded |-> 0]

\* the carrier statistics after loss of carrier (carrier_nsamples,
\* confidence_total, nframes_decoded)
DroppedStats == [carrier_nsamples |-> 0, confidence_total |-> 0,
                 nframes_decoded |-> 0]

\* the read of this iteration is at offset samples_nvalid and asks for the
\* rest of the buffer
ContiguousFill ==
    /\ ShiftReadoff = ShiftNvalid
    /\ ShiftReadNsamples = samplebuf_size - ShiftNvalid

\* every candidate frame of a find_frame call lies within nvalid samples
SearchInsideValid(nvalid) ==
    \A s \in CandidateStarts(try_first_sample, try_max_nsamples,
                             try_step_nsamples) :
        s + frame_nsamples <= nvalid

\* the history after this iteration's shift
HistShift ==
    [hist EXCEPT !.stream_pos = @ + (IF advance = 0 THEN 0 ELSE ShiftAmount),
                 !.shift_ok = @ /\ advance <= samples_nvalid,
                 !.eof_iters = IF src.eof THEN Min(@ + 1, 2) ELSE @,
                 !.contig = @ /\ ContiguousFill]

\* the history after the auto-detect outcome o: the block ran (detect_idle:
\* never with carrier), fsk_set_tones_by_bandshift sets the plan's mark band
HistDetect(h, o) ==
    IF o.kind = "none" THEN h
    ELSE IF o.kind = "bound"
    THEN [h EXCEPT !.detect_idle = @ /\ ~carrier,
                   !.nbind = @ + 1, !.b_mark = o.band]
    ELSE [h EXCEPT !.detect_idle = @ /\ ~carrier]

\* the audio source after a read of n samples that returned r >= 0
SrcAfterRead(n, r) ==
    [src EXCEPT !.left = @ - r,
                !.eof = @ \/ r = 0,
                !.short_left = IF ReadIsShort(n, r) THEN @ - 1 ELSE @]

\* the signal after an auto-detect outcome and a find_frame result
SrcAfter(s, kind, accepted) ==
    [s EXCEPT !.detects_left = IF kind \in {"toolow", "bound"} /\ @ > 0
                               THEN @ - 1 ELSE @,
              !.frames_left = IF accepted /\ @ > 0 THEN @ - 1 ELSE @]

\* the shift, then a read that returned r >= 0 samples
ShiftAndFill(r) ==
    /\ r \in ReadResults(ShiftReadNsamples)
    /\ r >= 0
    /\ samples_nvalid' = ShiftNvalid + r
    /\ samples_readoff' = ShiftReadoff
    /\ read_nsamples' = ShiftReadNsamples

LoopHead == pc = "loop" /\ HeadAssertions

\* if ( advance > samples_nvalid ) break;
IterUnderflow ==
    /\ LoopHead
    /\ ShiftUnderflow
    /\ pc' = "exited"
    /\ UNCHANGED <<cfg, src, samples_nvalid, samples_readoff,
                   read_nsamples, advance, carrier, confidence_total,
                   nframes_decoded, carrier_nsamples, noconfidence,
                   carrier_band, ret, baudot_charset, stdout, stderr, hist, rt,
                   sidevars>>

\* ReadErrorRet that leaves ret as it is
ReadErrorRet_Unset == ret

\* ret = -1;  on a failed read
ReadErrorRet == -1

\* if ( r < 0 ) { ret = -1; break; }
IterReadError ==
    /\ LoopHead
    /\ ~ShiftUnderflow
    /\ -1 \in ReadResults(ShiftReadNsamples)
    /\ samples_nvalid' = ShiftNvalid
    /\ samples_readoff' = ShiftReadoff
    /\ read_nsamples' = ShiftReadNsamples
    /\ advance' = ShiftAdvance
    /\ ret' = ReadErrorRet
    /\ pc' = "exited"
    /\ hist' = [HistShift EXCEPT !.read_error = TRUE]
    /\ UNCHANGED <<cfg, src, carrier,
                   confidence_total,
                   nframes_decoded, carrier_nsamples, noconfidence,
                   carrier_band, baudot_charset, stdout, stderr, rt,
                   sidevars>>

\* if ( samples_nvalid == 0 ) break;
IterNoSamples ==
    /\ LoopHead
    /\ ~ShiftUnderflow
    /\ \E r \in 0..samplebuf_size :
        /\ ShiftAndFill(r)
        /\ ShiftNvalid + r = 0
        /\ src' = SrcAfterRead(ShiftReadNsamples, r)
    /\ advance' = ShiftAdvance
    /\ pc' = "exited"
    /\ hist' = HistShift
    /\ UNCHANGED <<cfg, carrier, confidence_total, nframes_decoded,
                   carrier_nsamples, noconfidence, carrier_band, ret,
                   baudot_charset, stdout, stderr, rt,
                   sidevars>>

\* auto-detect finds no carrier in the buffer: advance past it and continue
IterAutoMiss ==
    /\ LoopHead
    /\ ~ShiftUnderflow
    /\ \E r \in 0..samplebuf_size :
        /\ ShiftAndFill(r)
        /\ ShiftNvalid + r > 0
        /\ \E o \in DetectOutcomes(ShiftNvalid + r) :
            /\ o.kind = "miss"
            /\ advance' = o.adv
            /\ carrier_band' = o.band
            /\ src' = SrcAfter(SrcAfterRead(ShiftReadNsamples, r), o.kind, FALSE)
            /\ hist' = HistDetect(HistShift, o)
    /\ UNCHANGED <<cfg, pc, carrier, confidence_total, nframes_decoded,
                   carrier_nsamples, noconfidence, ret, baudot_charset,
                   stdout, stderr, rt,
                   sidevars>>

\* auto-detect finds a carrier whose space band is too low: continue
IterAutoTooLow ==
    /\ LoopHead
    /\ ~ShiftUnderflow
    /\ \E r \in 0..samplebuf_size :
        /\ ShiftAndFill(r)
        /\ ShiftNvalid + r > 0
        /\ \E o \in DetectOutcomes(ShiftNvalid + r) :
            /\ o.kind = "toolow"
            /\ advance' = o.adv
            /\ carrier_band' = o.band
            /\ src' = SrcAfter(SrcAfterRead(ShiftReadNsamples, r), o.kind, FALSE)
            /\ hist' = HistDetect(HistShift, o)
    /\ UNCHANGED <<cfg, pc, carrier, confidence_total, nframes_decoded,
                   carrier_nsamples, noconfidence, ret, baudot_charset,
                   stdout, stderr, rt,
                   sidevars>>

\* if ( samples_nvalid < frame_nsamples ) break;
IterShortTail ==
    /\ LoopHead
    /\ ~ShiftUnderflow
    /\ \E r \in 0..samplebuf_size :
        /\ ShiftAndFill(r)
        /\ ShiftNvalid + r > 0
        /\ ShiftNvalid + r < frame_nsamples
        /\ \E o \in DetectOutcomes(ShiftNvalid + r) :
            /\ o.kind \in {"none", "bound"}
            /\ advance' = o.adv
            /\ carrier_band' = o.band
            /\ src' = SrcAfter(SrcAfterRead(ShiftReadNsamples, r), o.kind, FALSE)
            /\ hist' = [HistDetect(HistShift, o) EXCEPT !.short_tail = TRUE]
    /\ pc' = "exited"
    /\ UNCHANGED <<cfg, carrier, confidence_total, nframes_decoded,
                   carrier_nsamples, noconfidence, ret, baudot_charset,
                   stdout, stderr, rt,
                   sidevars>>

\* LowConfidenceAdvance by one bit instead of try_max_nsamples
LowConfidenceAdvance_OneBit == Trunc(nsamples_per_bit)

\* LowConfidenceAdvance by try_first_sample instead of try_max_nsamples
LowConfidenceAdvance_FirstSample == try_first_sample

\* advance = try_max_nsamples;  (the low-confidence skip)
LowConfidenceAdvance == try_max_nsamples

\* DroppedCarrier that keeps carrier
DroppedCarrier_Keep == carrier

\* carrier = 0;  on loss of carrier
DroppedCarrier == FALSE

\* confidence <= fsk_confidence_threshold: count it, drop carrier when the run
\* of low-confidence attempts exceeds FSK_MAX_NOCONFIDENCE_BITS, skip ahead
IterLowConfidence ==
    /\ LoopHead
    /\ ~ShiftUnderflow
    /\ \E r \in 0..samplebuf_size :
        /\ ShiftAndFill(r)
        /\ ShiftNvalid + r >= frame_nsamples
        /\ ShiftNvalid + r > 0
        /\ \E o \in DetectOutcomes(ShiftNvalid + r) :
            /\ o.kind \in {"none", "bound"}
            /\ \E f \in FindFrameResults :
                LET n == noconfidence + 1
                    exceeded == NoConfidenceExceeded(n)
                    drop == exceeded /\ carrier
                    stats == IF drop THEN DroppedStats
                             ELSE [carrier_nsamples |-> carrier_nsamples,
                                   confidence_total |-> confidence_total,
                                   nframes_decoded |-> nframes_decoded]
                IN  /\ LowConfidence(f.confidence)
                    /\ src' = SrcAfter(SrcAfterRead(ShiftReadNsamples, r),
                                       o.kind, FALSE)
                    /\ noconfidence' = n
                    /\ carrier_band' = IF exceeded THEN -1 ELSE o.band
                    /\ stderr' = IF drop THEN Report("NOCARRIER") ELSE stderr
                    /\ carrier' = IF drop THEN DroppedCarrier ELSE carrier
                    /\ carrier_nsamples' = stats.carrier_nsamples
                    /\ confidence_total' = stats.confidence_total
                    /\ nframes_decoded' = stats.nframes_decoded
                    /\ advance' = LowConfidenceAdvance
                    /\ hist' = [HistDetect(HistShift, o) EXCEPT
                                  !.all_low = @ /\ f.confidence <= cfg.threshold,
                                  !.search_ok =
                                      @ /\ SearchInsideValid(ShiftNvalid + r),
                                  !.drop_lag = IF drop
                                               THEN HistShift.stream_pos
                                                    - hist.accept_end
                                               ELSE @,
                                  !.drop_out = IF drop
                                               THEN Len(stdout)
                                                    - hist.nout_accept
                                               ELSE @,
                                  !.drop_streak = IF drop THEN n ELSE @]
    /\ UNCHANGED <<cfg, pc, ret, baudot_charset, stdout, rt,
                   sidevars>>

\* AcceptNoConfidence that keeps the count
AcceptNoConfidence_Keep == noconfidence

\* noconfidence = 0;  on an accepted frame
AcceptNoConfidence == 0

\* AcquireReset on every accepted frame
AcquireReset_Always == TRUE

\* if ( carrier ) ... else { ...; carrier = 1; bfsk_framebits_decode(0, 0, 0); }
AcquireReset == ~carrier

\* confidence > fsk_confidence_threshold: acquire or keep carrier, count the
\* frame, advance past it, decode the data word and print the bytes
IterAccept ==
    /\ LoopHead
    /\ ~ShiftUnderflow
    /\ \E r \in 0..samplebuf_size :
        /\ ShiftAndFill(r)
        /\ ShiftNvalid + r >= frame_nsamples
        /\ ShiftNvalid + r > 0
        /\ \E o \in DetectOutcomes(ShiftNvalid + r) :
            /\ o.kind \in {"none", "bound"}
            /\ \E f \in FindFrameResults :
                LET bits == ChopFramingBits(f.bits)
                    charset == IF AcquireReset
                               THEN bfsk_framebits_reset(baudot_charset).charset
                               ELSE baudot_charset
                    bytes == bfsk_framebits_decode(charset, bits)
                IN  /\ ~LowConfidence(f.confidence)
                    /\ src' = SrcAfter(SrcAfterRead(ShiftReadNsamples, r),
                                       o.kind, TRUE)
                    /\ carrier_band' = o.band
                    /\ carrier_nsamples' = AcceptCarrierNsamples(f.start)
                    /\ stderr' = IF carrier THEN stderr ELSE Report("CARRIER")
                    /\ carrier' = TRUE
                    /\ confidence_total' = confidence_total + f.confidence
                    /\ nframes_decoded' = nframes_decoded + 1
                    /\ noconfidence' = AcceptNoConfidence
                    /\ advance' = AcceptAdvance(f.start)
                    /\ baudot_charset' =
                         IF cfg.n_data_bits = 5
                         THEN BaudotShiftAfter(charset, bits) ELSE charset
                    /\ \E t \in PrintedSeqs(bytes) : stdout' = stdout \o t
                    /\ hist' = [HistDetect(HistShift, o) EXCEPT
                                  !.all_low = @ /\ f.confidence <= cfg.threshold,
                                  !.search_ok =
                                      @ /\ SearchInsideValid(ShiftNvalid + r),
                                  !.naccepted = @ + 1,
                                  !.nreset = IF AcquireReset THEN @ + 1 ELSE @,
                                  !.accept_bound =
                                      @ /\ (cfg.autodetect => o.band >= 0),
                                  !.last_conf = f.confidence,
                                  !.last_bits = f.bits,
                                  !.accept_end = HistShift.stream_pos
                                                 + AcceptAdvance(f.start),
                                  !.nout_accept = Len(stdout')]
    /\ UNCHANGED <<cfg, pc, ret, rt,
                   sidevars>>

\* FinalReport without the test of carrier
FinalReport_Always == Report("NOCARRIER")

\* if ( carrier ) { if ( !quiet_mode ) report_no_carrier(...); }
FinalReport == IF carrier THEN Report("NOCARRIER") ELSE stderr

\* after the loop: the final report; return ret;
Finish ==
    /\ pc = "exited"
    /\ stderr' = FinalReport
    /\ pc' = "done"
    /\ UNCHANGED <<cfg, src, samples_nvalid, samples_readoff,
                   read_nsamples, advance, carrier, confidence_total,
                   nframes_decoded, carrier_nsamples, noconfidence,
                   carrier_band, ret, baudot_charset, stdout, hist, rt,
                   sidevars>>

\* ------------------------------------------------------------ specification
HistInit ==
    [stream_pos |-> 0, shift_ok |-> TRUE, naccepted |-> 0, last_conf |-> 0,
     last_bits |-> -1, accept_end |-> 0, nout_accept |-> 0, drop_lag |-> -1,
     drop_out |-> 0, drop_streak |-> 0, all_low |-> TRUE,
     read_error |-> FALSE, eof_iters |-> 0, short_tail |-> FALSE,
     contig |-> TRUE, search_ok |-> TRUE, nbind |-> 0, b_mark |-> -1,
     nreset |-> 0, detect_idle |-> TRUE, accept_bound |-> TRUE]

RtIdle == [pc |-> "off", byte |-> 0, words |-> <<>>, line |-> <<>>, bits |-> 0]

\* the transmitter, the option parser and the tone binding when they do not run
TxIdle == [pc |-> "off"]
OptIdle == [pc |-> "off"]
PlanIdle == [pc |-> "off"]
SideIdle == tx = TxIdle /\ opt = OptIdle /\ plan = PlanIdle

\* the state at the head of the first iteration of the receive loop
RxInit ==
    /\ samples_nvalid = 0
    /\ samples_readoff = 0
    /\ read_nsamples = samplebuf_size
    /\ advance = 0
    /\ carrier = FALSE
    /\ confidence_total = 0
    /\ nframes_decoded = 0
    /\ carrier_nsamples = 0
    /\ noconfidence = 0
    /\ carrier_band = -1
    /\ ret = 0
    /\ baudot_charset = 0
    /\ stdout = <<>>
    /\ stderr = <<>>
    /\ hist = HistInit

\* a short stream under every configuration, with short reads
Init ==
    /\ cfg \in Configs
    /\ src = [left |-> SrcShort, eof |-> FALSE, short_left |-> MaxShortReads,
              frames_left |-> MaxFrames, detects_left |-> MaxDetects]
    /\ pc = "loop"
    /\ RxInit
    /\ rt = RtIdle
    /\ SideIdle

\* a stream long enough to lose carrier in mid-stream: 8-bit frames at one
\* sample per bit, with fixed tones or, without -q, with -a
InitLong ==
    /\ cfg \in {c \in Configs : /\ c.nspb = NspbDen
                                /\ c.threshold >= 0
                                /\ c.n_data_bits = 8
                                /\ ~(c.autodetect /\ c.quiet_mode)}
    /\ src = [left |-> SrcLong, eof |-> FALSE, short_left |-> 0,
              frames_left |-> MaxFrames, detects_left |-> MaxDetects]
    /\ pc = "loop"
    /\ RxInit
    /\ rt = RtIdle
    /\ SideIdle

\* the short stream without reports on stderr (-q)
InitLive ==
    /\ cfg \in {c \in Configs : c.quiet_mode /\ c.threshold >= 0}
    /\ src = [left |-> SrcShort, eof |-> FALSE, short_left |-> MaxShortReads,
              frames_left |-> MaxFrames, detects_left |-> MaxDetects]
    /\ pc = "loop"
    /\ RxInit
    /\ rt = RtIdle
    /\ SideIdle

Next ==
    \/ IterUnderflow
    \/ IterReadError
    \/ IterNoSamples
    \/ IterAutoMiss
    \/ IterAutoTooLow
    \/ IterShortTail
    \/ IterLowConfidence
    \/ IterAccept
    \/ Finish

Spec == Init /\ [][Next]_vars

SpecLong == InitLong /\ [][Next]_vars

\* an auto-carrier session long enough to lose carrier and acquire it again,
\* with one more carrier to detect than the other streams hold
InitSession ==
    /\ cfg \in {c \in Configs : /\ c.nspb = NspbDen
                                /\ c.threshold >= 0
                                /\ ~c.quiet_mode
                                /\ c.autodetect
                                /\ c.n_data_bits = 8}
    /\ src = [left |-> SrcLong, eof |-> FALSE, short_left |-> 0,
              frames_left |-> MaxFrames, detects_left |-> MaxDetects + 1]
    /\ pc = "loop"
    /\ RxInit
    /\ rt = RtIdle
    /\ SideIdle

SpecSession == InitSession /\ [][Next]_vars

\* a session with fixed tones (no -a) long enough to lose carrier and acquire
\* it again, for both decoders
InitReacquire ==
    /\ cfg \in {c \in Configs : /\ c.nspb = NspbDen
                                /\ c.threshold >= 0
                                /\ ~c.autodetect}
    /\ src = [left |-> SrcLong, eof |-> FALSE, short_left |-> 0,
              frames_left |-> MaxFrames, detects_left |-> 0]
    /\ pc = "loop"
    /\ RxInit
    /\ rt = RtIdle
    /\ SideIdle

\* the iterations of the receive loop without -a
NextFixedTones ==
    \/ IterUnderflow
    \/ IterReadError
    \/ IterNoSamples
    \/ IterShortTail
    \/ IterLowConfidence
    \/ IterAccept
    \/ Finish

SpecReacquire == InitReacquire /\ [][NextFixedTones]_vars

\* assert( advance <= samplebuf_size );  assert ( read_nsamples > 0 );
\* assert ( samples_nvalid + read_nsamples <= samplebuf_size );  one of them
\* fails: abort()
IterAbort ==
    /\ pc = "loop"
    /\ ~HeadAssertions
    /\ pc' = "aborted"
    /\ UNCHANGED <<cfg, src, samples_nvalid, samples_readoff,
                   read_nsamples, advance, carrier, confidence_total,
                   nframes_decoded, carrier_nsamples, noconfidence,
                   carrier_band, ret, baudot_charset, stdout, stderr, hist, rt,
                   sidevars>>

\* receive at a data rate of FastDen times the sample rate (tones given by
\* -M and -S), without -a
InitFast ==
    /\ cfg \in [den : {FastDen}, nspb : {1}, n_data_bits : {5, 8},
                quiet_mode : BOOLEAN, autodetect : {FALSE}, threshold : {0},
                b_shift : {-1}, char_signed : {TRUE}]
    /\ src = [left |-> SrcShort, eof |-> FALSE, short_left |-> MaxShortReads,
              frames_left |-> MaxFrames, detects_left |-> 0]
    /\ pc = "loop"
    /\ RxInit
    /\ rt = RtIdle
    /\ SideIdle

\* the iterations of the receive loop at that rate: every buffer holds a
\* frame and every advance is at most one sample
NextFast ==
    \/ IterReadError
    \/ IterNoSamples
    \/ IterLowConfidence
    \/ IterAccept
    \/ IterAbort
    \/ Finish

SpecFast == InitFast /\ [][NextFast]_vars

\* --------------------------------------------- transmit -> receive round trip
\* TxWordBits with the data bits most significant first
TxWordBits_MsbFirst(word) ==
    <<0>> \o [i \in 1..cfg.n_data_bits |-> UBit(word, cfg.n_data_bits - i)]
          \o <<1>>

\* fsk_transmit_stdin, the bit cells of one data word: a space (start), the
\* n_data_bits data bits least significant first (mark = 1, space = 0), a
\* mark (stop)
TxWordBits(word) ==
    <<0>> \o [i \in 1..cfg.n_data_bits |-> UBit(word, i - 1)] \o <<1>>

RECURSIVE TxWordsBits(_)
TxWordsBits(words) ==
    IF words = <<>> THEN <<>>
    ELSE TxWordBits(Head(words)) \o TxWordsBits(Tail(words))

\* the mark bits of the leader (sent when !tx_transmitting) and of the trailer
\* (tx_stop_transmit_sighandler)
TxMarks(n) == [i \in 1..n |-> 1]

\* the frame word a noiseless channel hands the receiver: n_data_bits + 3 bit
\* cells of the line from cell k, the cell before the first start bit
LineFrameWord(line) ==
    LET k == CHOOSE i \in 1..Len(line) :
                 /\ line[i + 1] = 0
                 /\ \A j \in 1..i : line[j] = 1
        Cells(j) == IF j = 0 THEN line[k]
                    ELSE line[k + j] * Pow2(j)
        Sum[j \in 0..(cfg.n_data_bits + 2)] ==
            IF j = 0 THEN Cells(0) ELSE Sum[j - 1] + Cells(j)
    IN  Sum[cfg.n_data_bits + 2]

\* nwords = framebits_encoder(bits, c);
RtEncode ==
    /\ rt.pc = "idle"
    /\ rt' = [rt EXCEPT !.pc = "encoded",
                        !.words = framebits_encode_ascii8(rt.byte)]
    /\ UNCHANGED <<rxvars, stdout, sidevars>>

\* the tones of the byte: leader, the words, and at end of input the trailer
RtTransmit ==
    /\ rt.pc = "encoded"
    /\ rt' = [rt EXCEPT !.pc = "sent",
                        !.line = TxMarks(tx_leader_bits_len)
                                 \o TxWordsBits(rt.words)
                                 \o TxMarks(tx_trailer_bits_len)]
    /\ UNCHANGED <<rxvars, stdout, sidevars>>

\* fsk_find_frame on the noiseless line: the frame, at full confidence
RtFindFrame ==
    /\ rt.pc = "sent"
    /\ rt' = [rt EXCEPT !.pc = "framed", !.bits = LineFrameWord(rt.line)]
    /\ UNCHANGED <<rxvars, stdout, sidevars>>

\* the receive loop on that result: chop the framing bits, decode, print
RtReceive ==
    /\ rt.pc = "framed"
    /\ ~LowConfidence(MaxConf)
    /\ \E t \in PrintedSeqs(bfsk_framebits_decode(0, ChopFramingBits(rt.bits))) :
        stdout' = stdout \o t
    /\ rt' = [rt EXCEPT !.pc = "decoded"]
    /\ UNCHANGED <<rxvars, sidevars>>

\* one byte 0..255 through the 8-bit codec, for either signedness of char
InitRT ==
    /\ cfg \in [den : {NspbDen}, nspb : {NspbDen}, n_data_bits : {8},
                quiet_mode : {FALSE},
                autodetect : {FALSE}, threshold : {0}, b_shift : {-1},
                char_signed : BOOLEAN]
    /\ src = [left |-> 0, eof |-> FALSE, short_left |-> 0,
              frames_left |-> 0, detects_left |-> 0]
    /\ pc = "off"
    /\ RxInit
    /\ rt \in [pc : {"idle"}, byte : 0..255, words : {<<>>}, line : {<<>>},
               bits : {0}]
    /\ SideIdle

NextRT == RtEncode \/ RtTransmit \/ RtFindFrame \/ RtReceive

SpecRT == InitRT /\ [][NextRT]_vars

\* -------------------------------------------------------------- transmitter
\* fsk_transmit_stdin as a process: tx.pc is "getchar" (blocked in getchar),
\* "gotbyte" / "goteof" (getchar has returned, the timer not yet disarmed) or
\* "done".  tx.input is the bytes still to come, each with late: the gap
\* before it outlasts the idle timer; tx.eof_late the same for end of input.
\* tx.out is the tones written, each [kind, f, n]: f the frequency ("mark",
\* "space" or "silence"), n the samples, kind what the tone is for.
\* tx.words (the encoder's words so far), tx.log (leaders and trailers in
\* order), tx.nfired (timer expiries since the last byte), tx.nsent (bytes
\* sent) and tx.midbyte (the handler ran while a byte was sent) are history.

\* size_t bit_nsamples = sample_rate / data_rate + 0.5;
bit_nsamples == (2 * nsamples_per_bit + cfg.den) \div (2 * cfg.den)

\* bit_nsamples * bfsk_txstopbits as a number of samples; tx.stop2 is
\* bfsk_txstopbits in halves
StopNsamples == (bit_nsamples * tx.stop2) \div 2

Tone(kind, f, n) == [kind |-> kind, f |-> f, n |-> n]

\* for ( j=0; j<tx_leader_bits_len; j++ ) simpleaudio_tone(mark, bit_nsamples)
TxLeaderTones == [i \in 1..tx_leader_bits_len |-> Tone("leader", "mark", bit_nsamples)]

\* tx_stop_transmit_sighandler: the trailer marks, then 0.5 sec of zero samples
TxStopTones ==
    [i \in 1..tx_trailer_bits_len |-> Tone("trailer", "mark", bit_nsamples)]
    \o <<Tone("flush", "silence", sample_rate \div 2)>>

\* the tones of one data word: start, data bits, stop
TxWordTones(word) ==
    LET bits == TxWordBits(word)
    IN  [i \in 1..Len(bits) |->
            Tone(IF i = 1 THEN "start"
                 ELSE IF i = Len(bits) THEN "stop" ELSE "data",
                 IF bits[i] = 1 THEN "mark" ELSE "space",
                 IF i = Len(bits) THEN StopNsamples ELSE bit_nsamples)]

RECURSIVE TxWordsTones(_)
TxWordsTones(words) ==
    IF words = <<>> THEN <<>>
    ELSE TxWordTones(Head(words)) \o TxWordsTones(Tail(words))

\* baudot_encode: the code of ch in a table, -1 when it has none
BaudotCode(table, ch) ==
    IF \E i \in 1..32 : table[i] = ch /\ ch # 0
    THEN (CHOOSE i \in 1..32 : table[i] = ch) - 1
    ELSE -1

\* baudot_encode: the words for ch (the shift code first when the other
\* table is needed, nothing for a character in neither table) and the shift
\* state after them
baudot_encode(charset, ch) ==
    LET l == BaudotCode(BaudotLetters, ch)
        f == BaudotCode(BaudotFigures, ch)
    IN  IF l >= 0 /\ f >= 0 THEN [words |-> <<l>>, charset |-> charset]
        ELSE IF l >= 0
        THEN [words |-> IF charset = 0 THEN <<l>> ELSE <<31, l>>, charset |-> 0]
        ELSE IF f >= 0
        THEN [words |-> IF charset = 1 THEN <<f>> ELSE <<27, f>>, charset |-> 1]
        ELSE [words |-> <<>>, charset |-> charset]

\* nwords = framebits_encoder(bits, c);
framebits_encoder(charset, c) ==
    IF cfg.n_data_bits = 8
    THEN [words |-> framebits_encode_ascii8(c), charset |-> charset]
    ELSE baudot_encode(charset, c)

\* the gap before the next byte (or the end of input) outlasts the timer
TxNextLate ==
    IF tx.input = <<>> THEN tx.eof_late ELSE Head(tx.input).late

\* c = getchar()  returns; with the timer armed and a gap that outlasts it,
\* the timer expires first
TxGetchar ==
    /\ tx.pc = "getchar"
    /\ ~(tx.armed /\ TxNextLate)
    /\ tx' = IF tx.input = <<>>
             THEN [tx EXCEPT !.pc = "goteof"]
             ELSE [tx EXCEPT !.pc = "gotbyte",
                             !.c = Head(tx.input).c,
                             !.late = Head(tx.input).late,
                             !.input = Tail(tx.input)]
    /\ UNCHANGED <<rxvars, stdout, rt, opt, plan>>

\* SIGALRM: tx_stop_transmit_sighandler runs while the main flow is in getchar
\* or between getchar and the setitimer that disarms the one-shot timer
TxTimerFires ==
    /\ tx.armed
    /\ \/ tx.pc \in {"gotbyte", "goteof"}
       \/ tx.pc = "getchar" /\ TxNextLate
    /\ tx' = [tx EXCEPT !.armed = FALSE,
                        !.out = @ \o TxStopTones,
                        !.transmitting = FALSE,
                        !.log = Append(@, "trailer"),
                        !.nfired = @ + 1]
    /\ UNCHANGED <<rxvars, stdout, rt, opt, plan>>

\* TxLeaderNeeded without the test of tx_transmitting
TxLeaderNeeded_Always == TRUE

\* if ( !tx_transmitting )
TxLeaderNeeded == ~tx.transmitting

\* TxArmedWhileSending when the timer is left as it is
TxArmedWhileSending_NoDisarm == tx.armed

\* if ( tx_interactive ) setitimer(ITIMER_REAL, NULL, NULL);  the timer is
\* not armed while the byte is sent
TxArmedWhileSending == FALSE

\* the tones of seq with the tones the signal handler writes after the first
\* k of them; k = -1 when the handler does not run
TxInterrupted(seq, k) ==
    IF k < 0 THEN seq
    ELSE SubSeq(seq, 1, k) \o TxStopTones \o SubSeq(seq, k + 1, Len(seq))

\* one pass of the while loop after getchar: disarm the timer, encode, send
\* the leader when idle, send the words, arm the timer again.  A timer that
\* is armed while the byte is sent may expire before any of its tones.
TxSendByte ==
    /\ tx.pc = "gotbyte"
    /\ LET enc == framebits_encoder(tx.charset, tx.c)
           leader == TxLeaderNeeded
           seq == (IF leader THEN TxLeaderTones ELSE <<>>)
                  \o TxWordsTones(enc.words)
       IN  \E k \in {-1} \cup (IF TxArmedWhileSending THEN 0..Len(seq)
                                ELSE {}) :
             tx' = [tx EXCEPT !.pc = "getchar",
                              !.armed = tx.interactive,
                              !.charset = enc.charset,
                              !.transmitting = k < 0,
                              !.out = @ \o TxInterrupted(seq, k),
                              !.words = @ \o enc.words,
                              !.log = (IF leader THEN Append(@, "leader") ELSE @)
                                      \o (IF k < 0 THEN <<>> ELSE <<"trailer">>),
                              !.midbyte = @ \/ k >= 0,
                              !.nfired = 0,
                              !.nsent = @ + 1]
    /\ UNCHANGED <<rxvars, stdout, rt, opt, plan>>

\* TxFinishStops without the test of tx_transmitting
TxFinishStops_Always == TRUE

\* if ( !tx_transmitting ) return;  tx_stop_transmit_sighandler(0);
TxFinishStops == tx.transmitting

\* after the loop: disarm the timer, restore SIGALRM, stop transmitting
TxFinish ==
    /\ tx.pc = "goteof"
    /\ tx' = IF TxFinishStops
             THEN [tx EXCEPT !.pc = "done",
                             !.armed = FALSE,
                             !.out = @ \o TxStopTones,
                             !.transmitting = FALSE,
                             !.log = Append(@, "trailer")]
             ELSE [tx EXCEPT !.pc = "done", !.armed = FALSE]
    /\ UNCHANGED <<rxvars, stdout, rt, opt, plan>>

\* the bytes on the transmitter's input: 'A', '1' and a byte above 127
TxBytes == {65, 49, 200}

RECURSIVE TxInputs(_)
TxInputs(n) ==
    IF n = 0 THEN {<<>>}
    ELSE TxInputs(n - 1)
         \cup {Append(i, [c |-> c, late |-> l]) :
                 i \in TxInputs(n - 1), c \in TxBytes, l \in BOOLEAN}

\* the transmitter at the call of fsk_transmit_stdin, for both data widths,
\* with and without the idle timer, 1 or 1.5 stop bits
InitTX ==
    /\ cfg \in [den : {NspbDen}, nspb : NspbDen..MaxNspbNum,
                n_data_bits : {5, 8},
                quiet_mode : {FALSE}, autodetect : {FALSE}, threshold : {0},
                b_shift : {-1}, char_signed : {TRUE}]
    /\ src = [left |-> 0, eof |-> FALSE, short_left |-> 0,
              frames_left |-> 0, detects_left |-> 0]
    /\ pc = "off"
    /\ RxInit
    /\ rt = RtIdle
    /\ opt = OptIdle
    /\ plan = PlanIdle
    /\ tx \in [pc : {"getchar"}, interactive : BOOLEAN, stop2 : {2, 3},
               input : TxInputs(MaxTxBytes), eof_late : BOOLEAN, c : {0},
               late : {FALSE}, transmitting : {FALSE}, armed : {FALSE},
               charset : {0}, out : {<<>>}, words : {<<>>}, log : {<<>>},
               nfired : {0}, nsent : {0}, midbyte : {FALSE}]

NextTX == TxGetchar \/ TxTimerFires \/ TxSendByte \/ TxFinish

SpecTX == InitTX /\ [][NextTX]_vars

\* ------------------------------------------------------------ command line
\* The option loop of main.  opt.args is the options still to parse, each
\* [form, name, arg]: form "short" (-x) or "long" (--name), arg the option's
\* argument in tenths (0 when it has none); opt.baudmode tells whether the
\* {baudmode} operand follows them.  opt.pc is "parse", "usage" (usage():
\* exit(1)), "exit0" (--version) or "parsed".  opt.last is the option parsed
\* last (history).

\* the short options of "Vtrc:a85f:b:M:S:T:qAR:"
ShortOptions ==
    {"V", "t", "r", "c", "a", "8", "5", "f", "b", "M", "S", "T", "q", "A", "R"}

\* long_options[]: name -> val, for the options modelled
LongOptions ==
    [n \in {"version", "tx", "transmit", "write", "rx", "receive", "read",
            "confidence", "limit", "auto-carrier", "ascii", "baudot",
            "quiet"} |->
        CASE n = "version" -> "V"
          [] n \in {"tx", "transmit", "write"} -> "t"
          [] n \in {"rx", "receive", "read"} -> "r"
          [] n = "confidence" -> "c"
          [] n = "limit" -> "l"
          [] n = "auto-carrier" -> "a"
          [] n = "ascii" -> "8"
          [] n = "baudot" -> "5"
          [] n = "quiet" -> "q"]

\* c = getopt_long(argc, argv, "Vtrc:a85f:b:M:S:T:qAR:", long_options, ...)
\* for the next option: its val, or "?" when it is not an option
getopt_long(o) ==
    IF o.form = "short"
    THEN IF o.name \in ShortOptions THEN o.name ELSE "?"
    ELSE IF o.name \in DOMAIN LongOptions THEN LongOptions[o.name] ELSE "?"

\* one pass of the option loop: getopt_long, then the switch
OptParse ==
    /\ opt.pc = "parse"
    /\ opt.args # <<>>
    /\ LET o == Head(opt.args)
           c == getopt_long(o)
           rest == [opt EXCEPT !.args = Tail(@), !.last = o]
       IN  opt' =
             CASE c = "V" -> [rest EXCEPT !.pc = "exit0"]
               [] c = "t" -> IF opt.TX_mode = 0
                             THEN [rest EXCEPT !.pc = "usage"]
                             ELSE [rest EXCEPT !.TX_mode = 1]
               [] c = "r" -> IF opt.TX_mode = 1
                             THEN [rest EXCEPT !.pc = "usage"]
                             ELSE [rest EXCEPT !.TX_mode = 0]
               [] c = "c" -> [rest EXCEPT !.threshold = o.arg]
               [] c = "l" -> [rest EXCEPT !.limit = o.arg]
               [] c = "a" -> [rest EXCEPT !.autodetect = TRUE]
               [] c = "8" -> [rest EXCEPT !.n_data_bits = 8]
               [] c = "5" -> [rest EXCEPT !.n_data_bits = 5]
               [] c = "q" -> [rest EXCEPT !.quiet_mode = TRUE]
               [] OTHER -> [rest EXCEPT !.pc = "usage"]
    /\ UNCHANGED <<rxvars, stdout, rt, tx, plan>>

\* c == -1: leave the loop; TX_mode defaults to receive; without exactly one
\* {baudmode} operand usage(); the search limit is raised to the threshold
OptEnd ==
    /\ opt.pc = "parse"
    /\ opt.args = <<>>
    /\ opt' = IF ~opt.baudmode
              THEN [opt EXCEPT !.pc = "usage"]
              ELSE [opt EXCEPT !.pc = "parsed",
                               !.TX_mode = IF @ = -1 THEN 0 ELSE @,
                               !.limit = IF @ < opt.threshold
                                         THEN opt.threshold ELSE @]
    /\ UNCHANGED <<rxvars, stdout, rt, tx, plan>>

\* the options tried: -c, -l, --confidence, --limit with two values, -q, -t,
\* -r, --rx, -a, and -x (no such option)
OptTokens ==
    {[form |-> f, name |-> n, arg |-> a] :
        f \in {"short"}, n \in {"c", "l"}, a \in {10, 30}}
    \cup {[form |-> "long", name |-> n, arg |-> a] :
            n \in {"confidence", "limit"}, a \in {10, 30}}
    \cup {[form |-> "short", name |-> n, arg |-> 0] : n \in {"q", "t", "r", "a", "x"}}
    \cup {[form |-> "long", name |-> "rx", arg |-> 0]}

RECURSIVE OptArgs(_)
OptArgs(n) ==
    IF n = 0 THEN {<<>>}
    ELSE OptArgs(n - 1)
         \cup {Append(a, o) : a \in OptArgs(n - 1), o \in OptTokens}

\* main at the head of the option loop
InitOpt ==
    /\ cfg \in [den : {NspbDen}, nspb : {NspbDen}, n_data_bits : {8},
                quiet_mode : {FALSE},
                autodetect : {FALSE}, threshold : {0}, b_shift : {-1},
                char_signed : {TRUE}]
    /\ src = [left |-> 0, eof |-> FALSE, short_left |-> 0,
              frames_left |-> 0, detects_left |-> 0]
    /\ pc = "off"
    /\ RxInit
    /\ rt = RtIdle
    /\ tx = TxIdle
    /\ plan = PlanIdle
    /\ opt \in [pc : {"parse"}, args : OptArgs(MaxArgs), baudmode : BOOLEAN,
                TX_mode : {-1},
                threshold : {fsk_confidence_threshold_default},
                limit : {fsk_confidence_search_limit_default},
                autodetect : {FALSE}, quiet_mode : {FALSE},
                n_data_bits : {0},
                last : {[form |-> "none", name |-> "", arg |-> 0]}]

NextOpt == OptParse \/ OptEnd

SpecOpt == InitOpt /\ [][NextOpt]_vars

\* ------------------------------------------------------------ tone binding
\* The auto-carrier tone binding of receive: main's defaults for the data
\* rate, then one pass of the auto-detect block.  plan.rate is
\* bfsk_data_rate, plan.band_width the -b option (0 when absent) and, once
\* plan.pc has left "config", the band width in use.  plan.pc is "config",
\* "scan" (nothing detected yet), "miss", "toolow" or "bound"
\* (fsk_set_tones_by_bandshift was called with b_mark and b_shift).

\* the conversion of the quotient n / d to int: truncation toward zero
IntQuot(n, d) ==
    IF (n >= 0) = (d > 0) THEN n \div d ELSE -((-n) \div d)

\* autodetect_shift = - ( bfsk_data_rate * 5 / 6 );  or 200, or 170
autodetect_shift_of(rate) ==
    IF rate >= 400 THEN -((rate * 5) \div 6)
    ELSE IF rate >= 100 THEN 200
    ELSE 170

\* if ( band_width == 0 ) band_width = 200 (50, 10);
\* if ( band_width > bfsk_data_rate ) band_width = bfsk_data_rate;
band_width_of(rate, b) ==
    LET w == IF b # 0 THEN b
             ELSE IF rate >= 400 THEN 200
             ELSE IF rate >= 100 THEN 50
             ELSE 10
    IN  Min(w, rate)

\* int b_shift = - (float)(autodetect_shift + fskp->band_width/2.0)
\*                                            / fskp->band_width;
b_shift_of(shift, w) == IntQuot(-(2 * shift + w), 2 * w)

\* the data-rate defaults of main
PlanConfigure ==
    /\ plan.pc = "config"
    /\ plan' = [plan EXCEPT
                  !.pc = "scan",
                  !.autodetect_shift = autodetect_shift_of(plan.rate),
                  !.band_width = band_width_of(plan.rate, plan.band_width)]
    /\ UNCHANGED <<rxvars, stdout, rt, tx, opt>>

\* the auto-detect block with carrier_band < 0: no carrier in the buffer, or
\* a carrier band whose space band is too low, or the binding of the tones
PlanDetect ==
    /\ plan.pc \in {"scan", "miss", "toolow"}
    /\ \E band \in {-1} \cup Bands :
        LET b_shift == b_shift_of(plan.autodetect_shift, plan.band_width)
        IN  plan' =
              IF band < 0 THEN [plan EXCEPT !.pc = "miss"]
              ELSE IF band + b_shift < 1
              THEN [plan EXCEPT !.pc = "toolow", !.b_shift = b_shift]
              ELSE [plan EXCEPT !.pc = "bound",
                                !.b_shift = b_shift,
                                !.b_mark = band,
                                !.b_space = band + b_shift]
    /\ UNCHANGED <<rxvars, stdout, rt, tx, opt>>

\* the data rates and -b band widths tried
PlanRates == {45, 100, 300, 400, 1200}
PlanBandWidths == {0, 10, 50, 200, 300, 1200}

\* receive with -a, before the data-rate defaults
InitPlan ==
    /\ cfg \in [den : {NspbDen}, nspb : {NspbDen}, n_data_bits : {8},
                quiet_mode : {FALSE},
                autodetect : {TRUE}, threshold : {0}, b_shift : {-1},
                char_signed : {TRUE}]
    /\ src = [left |-> 0, eof |-> FALSE, short_left |-> 0,
              frames_left |-> 0, detects_left |-> 0]
    /\ pc = "off"
    /\ RxInit
    /\ rt = RtIdle
    /\ tx = TxIdle
    /\ opt = OptIdle
    /\ plan \in [pc : {"config"}, rate : PlanRates,
                 band_width : PlanBandWidths, autodetect_shift : {0},
                 b_shift : {0}, b_mark : {0}, b_space : {0}]

NextPlan == PlanConfigure \/ PlanDetect

SpecPlan == InitPlan /\ [][NextPlan]_vars

\* the receive loop runs to completion: no iteration is postponed forever
SpecLive == InitLive /\ [][Next]_vars /\ WF_vars(Next)


\* ===================================================================== claims

\* C1: at the end of every iteration of the receive loop, and after it,
\* 0 <= samples_nvalid <= samplebuf_size, whatever the reads and find_frame
\* return.
Thm_C1_BufferBounds ==
    0 <= samples_nvalid /\ samples_nvalid <= samplebuf_size

\* C1 witness: the buffer is full again after samples were shifted out and a
\* read refilled it.
Wit_C1_FullAfterShift ==
    /\ pc = "loop"
    /\ hist.stream_pos > 0
    /\ hist.naccepted > 0
    /\ samples_nvalid = samplebuf_size

\* C2: nframes_decoded > 0 implies carrier; no carrier implies
\* confidence_total = 0 and carrier_nsamples = 0.
Thm_C2_CarrierState ==
    /\ nframes_decoded > 0 => carrier
    /\ ~carrier => (confidence_total = 0 /\ carrier_nsamples = 0)

\* C2 witness: carrier was acquired, frames were counted, and carrier was then
\* lost inside the loop.
Wit_C2_AfterDrop ==
    ~carrier /\ hist.drop_streak > 0 /\ hist.naccepted > 0 /\ pc = "loop"

\* C3 (as claimed): every frame handed to the decoder had confidence above the
\* threshold and framing bits prev_stop = 1, start = 0, stop = 1.
Cex_C3_AcceptedFramingValid ==
    hist.naccepted > 0 =>
        (hist.last_conf > cfg.threshold /\ FramingValid(hist.last_bits))

\* C4: the stream position never moves backwards, every advance assigned is
\* non-negative, and every shift applied had advance <= samples_nvalid.
Thm_C4_AdvanceMonotone ==
    [][/\ hist'.stream_pos >= hist.stream_pos
       /\ advance' >= 0
       /\ hist'.shift_ok]_vars

\* C4 witness: samples were shifted after an auto-detect skip, a
\* low-confidence skip and an accepted frame.
Wit_C4_AllAdvances ==
    /\ hist.stream_pos > 0
    /\ hist.naccepted > 0
    /\ noconfidence > 0
    /\ cfg.autodetect
    /\ src.detects_left < MaxDetects

\* C5 (as claimed): for every byte b, the ASCII round trip over a noiseless
\* channel writes exactly b to stdout.
Cex_C5_RoundTripEveryByte ==
    rt.pc = "decoded" => stdout = <<rt.byte>>

\* C5 (amended): the round trip writes exactly one byte; it is b when b is
\* printable or whitespace, and otherwise '.' (or b itself where isprint is
\* called with a negative char, b >= 128).
Thm_C5_RoundTripPrintable ==
    rt.pc = "decoded" =>
        /\ Len(stdout) = 1
        /\ IsPrintOrSpace(rt.byte) => stdout[1] = rt.byte
        /\ ~IsPrintOrSpace(rt.byte) =>
              stdout[1] \in {46} \cup (IF rt.byte >= 128 THEN {rt.byte} ELSE {})

\* C5 witness: the byte 'A' went through encoder, transmitter, frame locator
\* and receive path.
Wit_C5_RoundTripA ==
    /\ rt.pc = "decoded"
    /\ rt.byte = 65
    /\ rt.bits = FrameWord(1, 0, 65, 1)
    /\ stdout = <<65>>

\* C6 (as claimed): with carrier acquired, the 20th consecutive low-confidence
\* attempt resets carrier, so no iteration ends with carrier and a run of 20.
Cex_C6_DropAtTwentieth ==
    ~(carrier /\ noconfidence >= FSK_MAX_NOCONFIDENCE_BITS)

\* C6 (amended): with carrier acquired, the 21st consecutive low-confidence
\* attempt (the incremented counter exceeds 20) resets the carrier state and
\* reports NOCARRIER unless quiet; carrier is lost inside the loop only then.
Thm_C6_DropAtTwentyFirst ==
    [][/\ (carrier /\ noconfidence' = FSK_MAX_NOCONFIDENCE_BITS + 1) =>
            /\ ~carrier'
            /\ confidence_total' = 0
            /\ carrier_nsamples' = 0
            /\ nframes_decoded' = 0
            /\ stderr' = IF cfg.quiet_mode THEN stderr
                         ELSE Append(stderr, "NOCARRIER")
       /\ (carrier /\ ~carrier') =>
            /\ noconfidence = FSK_MAX_NOCONFIDENCE_BITS
            /\ noconfidence' = FSK_MAX_NOCONFIDENCE_BITS + 1]_vars

\* C6 witness: carrier was lost inside the loop after 21 low-confidence
\* attempts, and the report is on stderr.
Wit_C6_Dropped ==
    /\ pc = "loop"
    /\ hist.drop_streak = FSK_MAX_NOCONFIDENCE_BITS + 1
    /\ ~carrier
    /\ stderr = <<"CARRIER", "NOCARRIER">>

\* C7 (as claimed): when carrier is lost inside the loop, the stream has
\* advanced by at most 20 bit times past the last accepted frame (counted
\* here from the end of its stop bit, try_max_nsamples after its advance).
Cex_C7_DropWithinTwentyBits ==
    hist.drop_lag >= 0 =>
        (hist.drop_lag - try_max_nsamples) * cfg.den
            <= FSK_MAX_NOCONFIDENCE_BITS * nsamples_per_bit

\* C7 (amended): when carrier is lost inside the loop, the stream has advanced
\* by exactly 20 x try_max_nsamples past the advance of the last accepted
\* frame, and no byte was written in between.
Thm_C7_DropLag ==
    hist.drop_lag >= 0 =>
        /\ hist.drop_lag = FSK_MAX_NOCONFIDENCE_BITS * try_max_nsamples
        /\ hist.drop_out = 0

\* C7 witness: a loss of carrier inside the loop, after output was written.
Wit_C7_DropAfterOutput ==
    hist.drop_lag >= 0 /\ Len(stdout) > 0 /\ ~carrier

\* C8: unless quiet, the reports alternate CARRIER, NOCARRIER, ... starting
\* with CARRIER; inside the loop carrier is acquired exactly when a CARRIER
\* is unanswered; at the end every CARRIER has its NOCARRIER.
Thm_C8_ReportsPaired ==
    ~cfg.quiet_mode =>
        /\ \A i \in 1..Len(stderr) :
              stderr[i] = IF i % 2 = 1 THEN "CARRIER" ELSE "NOCARRIER"
        /\ pc # "done" => (carrier <=> Len(stderr) % 2 = 1)
        /\ pc = "done" => Len(stderr) % 2 = 0

\* C8 witness: a session that lost carrier inside the loop, acquired it again
\* and ended on a read error, with two CARRIER / NOCARRIER pairs.
Wit_C8_TwoPairs ==
    /\ pc = "done"
    /\ hist.read_error
    /\ hist.drop_streak > 0
    /\ Len(stderr) = 4

\* C9: while every find_frame result has had confidence <= threshold, nothing
\* is written to stdout, nothing is reported, carrier is not acquired, and a
\* session that ends without a read error returns 0.
Thm_C9_SilenceIn ==
    hist.all_low =>
        /\ stdout = <<>>
        /\ stderr = <<>>
        /\ ~carrier
        /\ hist.naccepted = 0
        /\ (pc = "done" /\ ~hist.read_error) => ret = 0

\* C9 witness: a session of low-confidence attempts only that reached end of
\* file and finished.
Wit_C9_SilentSession ==
    /\ pc = "done"
    /\ hist.all_low
    /\ noconfidence > 1
    /\ src.eof
    /\ ret = 0

Thm_C11_ReadFailureFatal ==
    [][/\ (hist'.read_error /\ ~hist.read_error) =>
            /\ pc = "loop" /\ pc' = "exited"
            /\ ret' = -1
       /\ hist'.read_error =>
            /\ pc' \in {"exited", "done"}
            /\ ret' = -1
            /\ stdout' = stdout
            /\ src' = src
            /\ carrier_band' = carrier_band
            /\ noconfidence' = noconfidence
            /\ hist'.naccepted = hist.naccepted]_vars

\* C11 witness: a read failed in mid-stream, after output was written, and the
\* session finished.
Wit_C11_FailedMidStream ==
    /\ pc = "done"
    /\ hist.read_error
    /\ hist.stream_pos > 0
    /\ Len(stdout) > 0
    /\ ret = -1

\* C12 (as claimed): every byte written to stdout is printable or whitespace:
\* the decoded byte itself when it is one, '.' when it is not.
Cex_C12_DisplayFiltered ==
    rt.pc = "decoded" =>
        LET b == ChopFramingBits(rt.bits)
        IN  /\ \A i \in 1..Len(stdout) : IsPrintOrSpace(stdout[i])
            /\ stdout = <<IF IsPrintOrSpace(b) THEN b ELSE 46>>

\* C13: the word tones written are, for each word of the encoder in input
\* order, one space bit, the D data bits least significant first (mark for
\* 1, space for 0) and one mark tone of bit_nsamples x txstopbits samples;
\* the pass for a byte writes the 2 leader marks first exactly when the
\* transmitter was idle; nothing is written before the first byte, so
\* nothing for empty input.  (Stated of the state each step leads to.)
Thm_C13_TransmitFraming ==
    [][LET D == cfg.n_data_bits
        WordT(w) ==
            <<Tone("start", "space", bit_nsamples)>>
            \o [i \in 1..D |->
                  Tone("data",
                       IF ((w % Pow2(D)) \div Pow2(i - 1)) % 2 = 1
                       THEN "mark" ELSE "space",
                       bit_nsamples)]
            \o <<Tone("stop", "mark", (bit_nsamples * tx.stop2) \div 2)>>
        Expected(ws) ==
            LET E[k \in 0..Len(ws)] ==
                    IF k = 0 THEN <<>> ELSE E[k - 1] \o WordT(ws[k])
            IN  E[Len(ws)]
        IsWordTone(t) == t.kind \in {"start", "data", "stop"}
        Leader == <<Tone("leader", "mark", bit_nsamples),
                    Tone("leader", "mark", bit_nsamples)>>
    IN  /\ tx.pc # "off" =>
                /\ SelectSeq(tx'.out, IsWordTone) = Expected(tx'.words)
                /\ tx'.nsent = 0 => tx'.out = <<>>
        /\ (tx.pc = "gotbyte" /\ tx'.pc = "getchar") =>
                tx'.out = tx.out
                          \o (IF tx.transmitting THEN <<>> ELSE Leader)
                          \o Expected(SubSeq(tx'.words, Len(tx.words) + 1,
                                             Len(tx'.words)))]_vars

\* C13 witness: a Baudot input of two bytes sent as three words (one a shift
\* code) with 1.5 stop bits, to the end of input.
Wit_C13_ThreeWords ==
    /\ tx.pc = "done"
    /\ ~tx.interactive
    /\ tx.stop2 = 3
    /\ tx.nsent = 2
    /\ Len(tx.words) = 3
    /\ Len(tx.out) = 2 + 3 * 7 + 3

\* C14: in interactive transmit the idle timer expires at most once after a
\* byte, and exactly once when the gap to the next byte (or to the end of
\* input) outlasts it; an expiry writes exactly the 2 trailer marks and the
\* silence and leaves the transmitter idle; the next byte writes the leader
\* again and arms the timer; leaders and trailers alternate, and at the end
\* every leader has its trailer.  (Stated of the state each step leads to.)
Thm_C14_IdleFlush ==
    [][tx.interactive =>
        LET Trailer == <<Tone("trailer", "mark", bit_nsamples),
                         Tone("trailer", "mark", bit_nsamples),
                         Tone("flush", "silence", sample_rate \div 2)>>
        IN  /\ tx'.nfired <= 1
            /\ (tx'.pc \in {"gotbyte", "goteof"} /\ tx'.nsent > 0
                  /\ tx.pc = "getchar" /\ TxNextLate) => tx'.nfired = 1
            /\ \A i \in 1..Len(tx'.log) :
                  tx'.log[i] = IF i % 2 = 1 THEN "leader" ELSE "trailer"
            /\ tx'.transmitting <=> Len(tx'.log) % 2 = 1
            /\ tx'.pc = "done" => Len(tx'.log) % 2 = 0
            /\ tx'.nfired = tx.nfired + 1 =>
                  /\ tx'.out = tx.out \o Trailer
                  /\ ~tx'.transmitting
                  /\ ~tx'.armed
            /\ (tx.pc = "gotbyte" /\ tx'.pc = "getchar") =>
                  /\ tx'.armed
                  /\ ~tx.transmitting => tx'.log = Append(tx.log, "leader")]_vars

\* C14 witness: an interactive run of two bytes in which the timer expired in
\* the gap between them and again before the end of input was seen.
Wit_C14_TwoFlushes ==
    /\ tx.pc = "done"
    /\ tx.interactive
    /\ tx.nsent = 2
    /\ tx.nfired = 1
    /\ tx.log = <<"leader", "trailer", "leader", "trailer">>

\* C15 (as claimed): -l F is parsed like --limit F: the parse goes on (no
\* usage error) and the search limit is F.
Cex_C15_ShortLimitAccepted ==
    (opt.pc # "off" /\ opt.last.form = "short" /\ opt.last.name = "l") =>
        /\ opt.pc # "usage"
        /\ opt.pc = "parse" => opt.limit = opt.last.arg

\* C16 (as claimed): the loop does not end on a buffer that holds less than
\* one frame while the audio source has more to deliver (it is not at end of
\* file and samples remain).
Cex_C16_PartialFrameDeferred ==
    hist.short_tail => (src.eof \/ src.left = 0)

\* C17 (as claimed): every read is made at buffer offset samples_nvalid and
\* asks for samplebuf_size - samples_nvalid samples.
Cex_C17_ContiguousFill ==
    hist.contig

\* C18 (as claimed): every candidate frame of every find_frame call lies
\* within the first samples_nvalid samples of the buffer.
Cex_C18_SearchInsideValid ==
    hist.search_ok

\* C19: carrier is lost, and a NOCARRIER reported inside the loop, only in a
\* low-confidence iteration whose incremented counter exceeds 20; an accepted
\* frame resets the counter to 0 and leaves carrier acquired; a
\* low-confidence iteration sets advance to try_max_nsamples.
Thm_C19_NoEarlyDrop ==
    [][/\ ((carrier /\ ~carrier')
             \/ (pc' = "loop" /\ Len(stderr') > Len(stderr)
                   /\ stderr'[Len(stderr')] = "NOCARRIER")) =>
            /\ noconfidence' = noconfidence + 1
            /\ noconfidence' > 20
            /\ hist'.naccepted = hist.naccepted
       /\ hist'.naccepted = hist.naccepted + 1 =>
            /\ noconfidence' = 0
            /\ carrier'
       /\ noconfidence' = noconfidence + 1 =>
            advance' = nsamples_overscan + Trunc(nsamples_per_bit)]_vars

\* C19 witness: carrier was lost after 21 low-confidence attempts and a later
\* frame was accepted, which reset the counter and acquired carrier again.
Wit_C19_ReacquiredAfterDrop ==
    /\ pc = "loop"
    /\ hist.drop_streak > 20
    /\ hist.naccepted = 2
    /\ carrier
    /\ noconfidence = 0

\* C20 (as claimed): every tone binding of the auto-detect has b_mark >= 1,
\* b_space = b_mark + b_shift >= 1, b_mark # b_space and both band centres
\* within Nyquist.
Cex_C20_PlanInvariant ==
    plan.pc = "bound" =>
        /\ plan.b_mark >= 1
        /\ plan.b_space = plan.b_mark + plan.b_shift
        /\ plan.b_space >= 1
        /\ plan.b_mark # plan.b_space
        /\ 2 * plan.b_mark * plan.band_width <= sample_rate
        /\ 2 * plan.b_space * plan.band_width <= sample_rate

\* C21 (as claimed): fsk_set_tones_by_bandshift is called at most once in a
\* receive session and never after a frame was accepted, and the plan's mark
\* band does not change after the first binding.
\* (Stated of the state each step leads to.)
Cex_C21_PlanImmutable ==
    [][/\ hist'.nbind <= 1
       /\ hist'.nbind > hist.nbind => hist.naccepted = 0
       /\ hist.nbind >= 1 => hist'.b_mark = hist.b_mark]_vars

\* C22: the frame processor reset happens once in each step that acquires
\* carrier and in no other step; that step announces CARRIER (unless quiet)
\* and decodes its data word after the reset, a Baudot word in letters; with
\* the ASCII decoder the reset leaves the codec state as it was and the step
\* prints the one byte of its data word.
\* (Stated of the state each step leads to.)
Thm_C22_ResetOnAcquisition ==
    [][LET acquired == ~carrier /\ carrier'
           bits == ChopFramingBits(hist'.last_bits)
       IN  /\ hist'.nreset = hist.nreset + (IF acquired THEN 1 ELSE 0)
           /\ acquired =>
                /\ stderr' = Report("CARRIER")
                /\ cfg.n_data_bits = 5 =>
                     /\ baudot_charset' = BaudotShiftAfter(0, bits)
                     /\ \E t \in PrintedSeqs(framebits_decode_baudot(0, bits)) :
                            stdout' = stdout \o t
                /\ cfg.n_data_bits = 8 =>
                     /\ baudot_charset' = baudot_charset
                     /\ Len(stdout') = Len(stdout) + 1
           /\ carrier /\ hist'.naccepted > hist.naccepted
              /\ cfg.n_data_bits = 5 =>
                baudot_charset' = BaudotShiftAfter(baudot_charset, bits)]_vars

\* a Baudot session acquired carrier with the figures shift, lost it, and
\* acquired it again with the word 10, printed as the letter R
Wit_C22_ReacquiredInLetters ==
    /\ cfg.n_data_bits = 5
    /\ carrier
    /\ hist.nreset = 2
    /\ stdout = <<82>>

\* C25: with -a, carrier is held only with the carrier band bound; the
\* auto-detect block (fsk_detect_carrier, fsk_set_tones_by_bandshift) has
\* never run with carrier held, and every accepted frame was found with the
\* carrier band bound.
Thm_C25_TonesPinned ==
    cfg.autodetect =>
        /\ carrier => carrier_band >= 0
        /\ hist.detect_idle
        /\ hist.accept_bound

\* with -a: carrier acquired, lost, the tones bound again and carrier
\* acquired again
Wit_C25_BoundAgainWithCarrier ==
    /\ cfg.autodetect
    /\ carrier
    /\ carrier_band >= 0
    /\ hist.nbind = 2
    /\ hist.drop_streak > 0
    /\ hist.naccepted = 2

\* C23: in interactive transmit the stop routine never runs while a byte is
\* sent: the trailer marks and the silence never follow a start or data tone,
\* every data and stop tone follows the start or a data tone of its word, and
\* the timer is armed only while the main loop waits for or has just read
\* the next byte.
Thm_C23_FrameNotSplit ==
    tx.pc # "off" =>
        /\ ~tx.midbyte
        /\ tx.armed => tx.interactive /\ tx.pc \in {"getchar", "gotbyte", "goteof"}
        /\ \A i \in 2..Len(tx.out) :
            /\ tx.out[i].kind \in {"trailer", "flush"} =>
                  tx.out[i - 1].kind \notin {"start", "data"}
            /\ tx.out[i].kind \in {"data", "stop"} =>
                  tx.out[i - 1].kind \in {"start", "data"}

\* an interactive Baudot session: the timer expired after the first byte and
\* the second byte was sent as two words (the figures shift and its code)
Wit_C23_FlushBeforeTwoWordByte ==
    /\ tx.pc = "done"
    /\ tx.interactive
    /\ cfg.n_data_bits = 5
    /\ tx.nsent = 2
    /\ Len(tx.words) = 3
    /\ tx.log = <<"leader", "trailer", "leader", "trailer">>
    /\ tx.words[2] = 27

\* C24 (as claimed): no assertion of the receive path fails: at the head of
\* every iteration advance <= samplebuf_size, read_nsamples > 0 and
\* samples_nvalid + read_nsamples <= samplebuf_size (after the shift), and
\* the data word handed to the decoder has no bit above its low D bits.
Cex_C24_AssertionsHold ==
    /\ pc = "loop" => HeadAssertions
    /\ pc # "aborted"
    /\ hist.last_bits >= 0 =>
          ChopFramingBits(hist.last_bits) < Pow2(cfg.n_data_bits)

====
